---- MODULE Spec2Model ----
(***************************************************************************)
(* Model of langchain_community/llms/minimax.py: the Minimax LLM adapter   *)
(* (MinimaxCommon / Minimax) and its endpoint client                       *)
(* (_MinimaxEndpointClient).                                               *)
(*                                                                         *)
(* Python values are modelled as follows.                                  *)
(*   - a dict is a function from its keys (strings) to values;             *)
(*   - a scalar dict value v is the record [scalar |-> v], the list        *)
(*     [{"sender_type": "USER", "text": p}] is the record                  *)
(*     [items |-> <<[sender_type |-> "USER", text |-> p]>>];               *)
(*   - text that is searched (the reply, the stop strings) is a sequence   *)
(*     of characters;                                                      *)
(*   - a dict OBJECT lives in the heap objs under a reference, so that     *)
(*     aliasing between self.model_kwargs and a call's request is visible; *)
(*   - an absent optional value is the record Absent.                      *)
(***************************************************************************)
EXTENDS Integers, Sequences, FiniteSets, TLC

VARIABLES
    env,      \* the process environment: variable name -> Absent or Val(v)
    ctor,     \* construction of the adapter: its status ("new", "ok" or
              \* "ConfigurationError") and the names of the arguments given to it
    adapter,  \* the fields of the Minimax instance (self), once constructed
    objs,     \* heap of dict objects: reference -> dict
    inv,      \* per thread: the locals of its _call invocation
    calls,    \* number of _call invocations started
    seen      \* the last values read from _default_params / _identifying_params

vars == <<env, ctor, adapter, objs, inv, calls, seen>>

-----------------------------------------------------------------------------
(* Bounds *)

\* longest reply text
MaxLen == 3
\* longest stop list
MaxStops == 2
\* longest stop string
MaxStopLen == 2
\* most _call invocations started in one behaviour
MaxCalls == 2
Threads == {1, 2}
Chars == {"a", "b"}

-----------------------------------------------------------------------------
(* Values *)

Absent == [absent |-> TRUE]
Val(v) == [value |-> v]
Scalar(v) == [scalar |-> v]
EmptyDict == [k \in {} |-> Scalar("")]

\* d[k] = v
dict_set(d, k, v) == [x \in DOMAIN d \cup {k} |-> IF x = k THEN v ELSE d[x]]
\* d.update(e), also {**d, **e}
dict_update(d, e) ==
    [x \in DOMAIN d \cup DOMAIN e |-> IF x \in DOMAIN e THEN e[x] ELSE d[x]]

\* all character sequences of length at most n
Texts(n) == UNION {[1..k -> Chars] : k \in 0..n}
\* all sequences over S of length at most n
SeqsUpTo(S, n) == UNION {[1..k -> S] : k \in 0..n}

-----------------------------------------------------------------------------
(* _MinimaxEndpointClient *)

\* set_api_url: f"{host}/v1/text/chatcompletion?GroupId={group_id}" unless given
set_api_url(values) ==
    IF "api_url" \notin DOMAIN values
    THEN dict_set(values, "api_url",
                  [host |-> values["host"],
                   path |-> "/v1/text/chatcompletion",
                   GroupId |-> values["group_id"]])
    ELSE values

\* _MinimaxEndpointClient(host=..., api_key=..., group_id=...)
_MinimaxEndpointClient(host, api_key, group_id) ==
    set_api_url([host |-> host, group_id |-> group_id, api_key |-> api_key])

-----------------------------------------------------------------------------
(* MinimaxCommon: fields and construction *)

EnvNames == {"MINIMAX_API_KEY", "MINIMAX_GROUP_ID", "MINIMAX_API_HOST"}
DefaultHost == "https://api.minimax.chat"

\* reference of the dict object held by self.model_kwargs
KwargsRef == 0

\* field defaults of MinimaxCommon (pre_init fills them in before the validator runs)
FieldDefaults ==
    [model |-> "abab5.5-chat", max_tokens |-> "256", temperature |-> "0.7",
     top_p |-> "0.95", model_kwargs |-> EmptyDict,
     minimax_api_host |-> Absent, minimax_group_id |-> Absent,
     minimax_api_key |-> Absent]

\* get_from_dict_or_env(values, key, env_key, default): the explicit value, else
\* the environment's, else the default; Absent stands for its error
get_from_dict_or_env(values, key, env_key, default) ==
    IF values[key] # Absent THEN values[key]
    ELSE IF env[env_key] # Absent THEN env[env_key]
    ELSE default

convert_to_secret_str(v) == [secret |-> v]
get_secret_value(s) == s.secret

\* as validate_environment, but with an empty default for the group id
validate_environment_skips_group(values) ==
    LET key == get_from_dict_or_env(values, "minimax_api_key", "MINIMAX_API_KEY", Absent)
        group == get_from_dict_or_env(values, "minimax_group_id", "MINIMAX_GROUP_ID",
                                      Val(""))
        host == get_from_dict_or_env(values, "minimax_api_host", "MINIMAX_API_HOST",
                                     Val(DefaultHost))
    IN  IF key = Absent
        THEN [raised |-> TRUE, values |-> values]
        ELSE [raised |-> FALSE,
              values |->
                [values EXCEPT !.minimax_api_key = Val(convert_to_secret_str(key.value)),
                               !.minimax_group_id = group,
                               !.minimax_api_host = host],
              client |-> _MinimaxEndpointClient(host.value,
                                                convert_to_secret_str(key.value),
                                                group.value)]

\* validate_environment: resolves api key, group id and host in that order, the
\* first unresolvable one raising; only then creates the client
validate_environment(values) ==
    LET key == get_from_dict_or_env(values, "minimax_api_key", "MINIMAX_API_KEY", Absent)
        group == get_from_dict_or_env(values, "minimax_group_id", "MINIMAX_GROUP_ID",
                                      Absent)
        host == get_from_dict_or_env(values, "minimax_api_host", "MINIMAX_API_HOST",
                                     Val(DefaultHost))
    IN  IF key = Absent \/ group = Absent
        THEN [raised |-> TRUE, values |-> values]
        ELSE [raised |-> FALSE,
              values |->
                [values EXCEPT !.minimax_api_key = Val(convert_to_secret_str(key.value)),
                               !.minimax_group_id = group,
                               !.minimax_api_host = host],
              client |-> _MinimaxEndpointClient(host.value,
                                                convert_to_secret_str(key.value),
                                                group.value)]

\* as _default_params, but without **self.model_kwargs
default_params_without_kwargs(self, heap) ==
    [model |-> Scalar(self.model),
     tokens_to_generate |-> Scalar(self.max_tokens),
     temperature |-> Scalar(self.temperature),
     top_p |-> Scalar(self.top_p)]

\* _default_params: a dict literal, the four fields then **self.model_kwargs
_default_params(self, heap) ==
    dict_update([model |-> Scalar(self.model),
                 tokens_to_generate |-> Scalar(self.max_tokens),
                 temperature |-> Scalar(self.temperature),
                 top_p |-> Scalar(self.top_p)],
                heap[self.model_kwargs])

\* _identifying_params: {**{"model": self.model}, **self._default_params}
_identifying_params(self, heap) ==
    dict_update([model |-> Scalar(self.model)], _default_params(self, heap))

\* _llm_type
_llm_type == "minimax"

-----------------------------------------------------------------------------
(* Stop tokens (langchain_community.llms.utils.enforce_stop_tokens) *)

\* str.find from position i: the smallest index >= i at which s occurs in text,
\* -1 when there is none
RECURSIVE find_from(_, _, _)
find_from(text, s, i) ==
    IF i + Len(s) > Len(text) THEN -1
    ELSE IF SubSeq(text, i + 1, i + Len(s)) = s THEN i
    ELSE find_from(text, s, i + 1)

find(text, s) == find_from(text, s, 0)

\* scan of the stop list from its k-th entry: the smallest index found so far,
\* an entry replacing it only when it occurs strictly earlier
RECURSIVE earliest_stop(_, _, _, _)
earliest_stop(text, stop, k, best) ==
    IF k > Len(stop) THEN best
    ELSE LET at == find(text, stop[k])
         IN  earliest_stop(text, stop, k + 1,
                           IF at # -1 /\ (best = -1 \/ at < best) THEN at ELSE best)

\* the text cut just before the earliest occurrence of any stop string
enforce_stop_tokens(text, stop) ==
    LET cut == earliest_stop(text, stop, 1, -1)
    IN  IF cut = -1 THEN text ELSE SubSeq(text, 1, cut)

\* the stop argument of _call: None, or a list of stop strings
NoStop == [given |-> FALSE, list |-> <<>>]
StopList(l) == [given |-> TRUE, list |-> l]

-----------------------------------------------------------------------------
(* _MinimaxEndpointClient.post *)

NoError == [type |-> "none"]
ValueError(tag, code, detail) ==
    [type |-> "ValueError", tag |-> tag, code |-> code, detail |-> detail]

\* a response of the remote service as requests presents it
Response(ok, status_code, text, code, msg, reply) ==
    [ok |-> ok, status_code |-> status_code, text |-> text,
     json |-> [base_resp |-> [status_code |-> code, status_msg |-> msg],
               reply |-> reply]]
NoResponse == [ok |-> FALSE, status_code |-> 0]

\* the responses a call may receive: success envelopes carrying each reply, an
\* application error, a negative status code, and failed HTTP exchanges whose
\* bodies hold an error page, a success envelope and an error envelope
Responses(Replies) ==
    {Response(TRUE, 200, "json", 0, "success", r) : r \in Replies}
    \cup {Response(TRUE, 200, "json", 1002, "rate limited", <<>>),
          Response(TRUE, 200, "json", -1, "", <<"b">>),
          Response(FALSE, 500, "Internal Server Error", 0, "", <<>>),
          Response(FALSE, 404, "json", 0, "success", <<"a">>),
          Response(FALSE, 500, "json", 1002, "rate limited", <<>>)}

\* the HTTP request: requests.post(self.api_url, headers=headers, json=request)
HttpPost(self, request) ==
    [url |-> self.api_url,
     headers |-> [Authorization |->
                    [scheme |-> "Bearer", token |-> get_secret_value(self.api_key)]],
     json |-> request]
NoWire == [url |-> Absent]

\* as post_result, but looking at base_resp before the HTTP status
post_checks_body_first(response) ==
    IF response.json.base_resp.status_code > 0
    THEN [raised |-> TRUE,
          error |-> ValueError("API", response.json.base_resp.status_code,
                               response.json.base_resp.status_msg),
          value |-> <<>>]
    ELSE IF ~response.ok
    THEN [raised |-> TRUE,
          error |-> ValueError("HTTP", response.status_code, response.text),
          value |-> <<>>]
    ELSE [raised |-> FALSE, error |-> NoError, value |-> response.json.reply]

\* what post does with the response: raise on a failed HTTP exchange, raise on a
\* positive base_resp.status_code, else return the reply
post_result(response) ==
    IF ~response.ok
    THEN [raised |-> TRUE,
          error |-> ValueError("HTTP", response.status_code, response.text),
          value |-> <<>>]
    ELSE IF response.json.base_resp.status_code > 0
    THEN [raised |-> TRUE,
          error |-> ValueError("API", response.json.base_resp.status_code,
                               response.json.base_resp.status_msg),
          value |-> <<>>]
    ELSE [raised |-> FALSE, error |-> NoError, value |-> response.json.reply]

-----------------------------------------------------------------------------
(* Minimax._call *)

\* [{"sender_type": "USER", "text": prompt}]
Messages(prompt) == [items |-> <<[sender_type |-> "USER", text |-> prompt]>>]

\* as call_result, but never enforcing the stop list
call_result_ignores_stop(text, stop) == text

\* as call_result, but returning nothing unless a non-empty stop list is given
call_result_empties_without_stop(text, stop) ==
    IF stop.given /\ stop.list # <<>> THEN enforce_stop_tokens(text, stop.list) ELSE <<>>

\* the end of _call: enforce_stop_tokens when stop is not None, then return text
call_result(text, stop) ==
    IF stop.given THEN enforce_stop_tokens(text, stop.list) ELSE text

\* lines 150-152 run without interruption: the request that _call builds
envelope(self, heap, prompt, kwargs) ==
    dict_update(dict_set(_default_params(self, heap), "messages", Messages(prompt)),
                kwargs)

\* _call run alone from entry to exit on one response: what it sends and how it ends
_call(self, heap, prompt, stop, kwargs, response) ==
    LET r == post_result(response)
    IN  [wire |-> HttpPost(self.client, envelope(self, heap, prompt, kwargs)),
         error |-> r.error,
         text |-> IF r.raised THEN <<>> ELSE call_result(r.value, stop)]

\* the locals of a thread that is in no _call
IdleLocals ==
    [pc |-> "idle", prompt |-> "", stop |-> NoStop, kwargs |-> EmptyDict,
     request |-> -1, wire |-> NoWire, response |-> NoResponse, posts |-> 0,
     error |-> NoError, text |-> <<>>]

\* as new_dict, but handing out the dict object of self.model_kwargs
new_dict_is_model_kwargs(i) == KwargsRef

\* the reference of the dict object that the dict literal of _default_params
\* creates for thread i: a new object, no other reference points at it
new_dict(i) == i

-----------------------------------------------------------------------------
(* Inputs *)

ExplicitNames == {"minimax_api_key", "minimax_group_id", "minimax_api_host"}

\* the environments: each variable set or not
Envs ==
    {[n \in EnvNames |-> IF n \in S THEN Val(<<"env", n>>) ELSE Absent] :
        S \in SUBSET EnvNames}
FullEnv == [n \in EnvNames |-> Val(<<"env", n>>)]

\* the model_kwargs an adapter may be built with; one collides with "model" and
\* "messages"
ModelKwargsChoices ==
    {EmptyDict,
     [top_k |-> Scalar("40")],
     [model |-> Scalar("abab5-chat"), messages |-> [items |-> <<>>]]}

\* the **kwargs a call may pass; one overrides a default, one adds keys, among
\* them "messages"
KwargsChoices ==
    {EmptyDict,
     [temperature |-> Scalar("0.1")],
     [top_k |-> Scalar("5"),
      messages |-> [items |-> <<[sender_type |-> "BOT", text |-> "x"]>>]]}

Prompts == {"p", "q"}

\* the stop arguments of the adapter's runs: None, the empty list, two lists
StopChoices ==
    {NoStop, StopList(<<>>), StopList(<<<<"b">>>>), StopList(<<<<"b", "a">>, <<"a">>>>)}
ReplyChoices == {<<"a", "b">>, <<"b", "a", "b">>}

\* every stop argument within the bounds: None and every list of at most
\* MaxStops stop strings of at most MaxStopLen characters
AllStops ==
    {NoStop} \cup {StopList(l) : l \in SeqsUpTo(Texts(MaxStopLen), MaxStops)}

-----------------------------------------------------------------------------
(* State machine *)

NoAdapter == [constructed |-> FALSE]

\* the instance that construction leaves when the validator returned r: the fields,
\* model_kwargs held by reference, and the client as _client
instance(r) ==
    [constructed |-> TRUE,
     model |-> r.values.model,
     max_tokens |-> r.values.max_tokens,
     temperature |-> r.values.temperature,
     top_p |-> r.values.top_p,
     model_kwargs |-> KwargsRef,
     minimax_api_host |-> r.values.minimax_api_host,
     minimax_group_id |-> r.values.minimax_group_id,
     minimax_api_key |-> r.values.minimax_api_key,
     client |-> r.client]
NoSeen == [read |-> FALSE]
NotConstructed == [status |-> "new", given |-> {}]

Init ==
    /\ env \in Envs
    /\ ctor = NotConstructed
    /\ adapter = NoAdapter
    /\ objs = [r \in {KwargsRef} \cup Threads |-> EmptyDict]
    /\ inv = [i \in Threads |-> IdleLocals]
    /\ calls = 0
    /\ seen = NoSeen

\* Minimax(**given): the validator runs over the supplied values; when it raises
\* no instance exists, else the instance holds the resolved values and the client
Construct(Explicit, ModelKwargs) ==
    /\ ctor.status = "new"
    /\ \E given \in Explicit, mk \in ModelKwargs :
         LET values ==
                 [FieldDefaults EXCEPT
                    !.minimax_api_key =
                        IF "minimax_api_key" \in given THEN Val("arg-key") ELSE Absent,
                    !.minimax_group_id =
                        IF "minimax_group_id" \in given THEN Val("arg-group") ELSE Absent,
                    !.minimax_api_host =
                        IF "minimax_api_host" \in given THEN Val("arg-host") ELSE Absent,
                    !.model_kwargs = mk]
             r == validate_environment(values)
         IN  IF r.raised
             THEN /\ ctor' = [status |-> "ConfigurationError", given |-> given]
                  /\ UNCHANGED <<adapter, objs>>
             ELSE /\ ctor' = [status |-> "ok", given |-> given]
                  /\ adapter' = instance(r)
                  /\ objs' = [objs EXCEPT ![KwargsRef] = r.values.model_kwargs]
    /\ UNCHANGED <<env, inv, calls, seen>>

\* a read of the two properties by the host framework
ReadParams ==
    /\ ctor.status = "ok"
    /\ seen' = [read |-> TRUE,
                default_params |-> _default_params(adapter, objs),
                identifying_params |-> _identifying_params(adapter, objs)]
    /\ seen' # seen
    /\ UNCHANGED <<env, ctor, adapter, objs, inv, calls>>

\* entry of _call: binds prompt, stop and **kwargs
Call(i, Stops) ==
    /\ ctor.status = "ok"
    /\ inv[i].pc \in {"idle", "done", "raised"}
    /\ calls < MaxCalls
    /\ \E prompt \in Prompts, stop \in Stops, kwargs \in KwargsChoices :
         inv' = [inv EXCEPT ![i] =
                   [IdleLocals EXCEPT !.pc = "l150", !.prompt = prompt,
                                      !.stop = stop, !.kwargs = kwargs]]
    /\ calls' = calls + 1
    /\ UNCHANGED <<env, ctor, adapter, objs, seen>>

\* request = self._default_params
L150(i) ==
    /\ inv[i].pc = "l150"
    /\ objs' = [objs EXCEPT ![new_dict(i)] = _default_params(adapter, objs)]
    /\ inv' = [inv EXCEPT ![i].request = new_dict(i), ![i].pc = "l151"]
    /\ UNCHANGED <<env, ctor, adapter, calls, seen>>

\* as L151, but keeping a "messages" entry the request already has
L151_setdefault(i) ==
    /\ inv[i].pc = "l151"
    /\ objs' = [objs EXCEPT ![inv[i].request] =
                    IF "messages" \in DOMAIN @ THEN @
                    ELSE dict_set(@, "messages", Messages(inv[i].prompt))]
    /\ inv' = [inv EXCEPT ![i].pc = "l152"]
    /\ UNCHANGED <<env, ctor, adapter, calls, seen>>

\* request["messages"] = [{"sender_type": "USER", "text": prompt}]
L151(i) ==
    /\ inv[i].pc = "l151"
    /\ objs' = [objs EXCEPT ![inv[i].request] =
                    dict_set(@, "messages", Messages(inv[i].prompt))]
    /\ inv' = [inv EXCEPT ![i].pc = "l152"]
    /\ UNCHANGED <<env, ctor, adapter, calls, seen>>

\* as L152, but with the request's entries winning over those of kwargs
L152_defaults_win(i) ==
    /\ inv[i].pc = "l152"
    /\ objs' = [objs EXCEPT ![inv[i].request] = dict_update(inv[i].kwargs, @)]
    /\ inv' = [inv EXCEPT ![i].pc = "l153"]
    /\ UNCHANGED <<env, ctor, adapter, calls, seen>>

\* request.update(kwargs)
L152(i) ==
    /\ inv[i].pc = "l152"
    /\ objs' = [objs EXCEPT ![inv[i].request] = dict_update(@, inv[i].kwargs)]
    /\ inv' = [inv EXCEPT ![i].pc = "l153"]
    /\ UNCHANGED <<env, ctor, adapter, calls, seen>>

\* as Post, but posting once more after a first failed exchange
PostRetrying(i, Resps) ==
    /\ inv[i].pc = "l153"
    /\ \E response \in Resps :
         LET r == post_result(response)
         IN  inv' = [inv EXCEPT
                       ![i].wire = HttpPost(adapter.client, objs[inv[i].request]),
                       ![i].posts = @ + 1,
                       ![i].response = response,
                       ![i].error = r.error,
                       ![i].text = r.value,
                       ![i].pc = IF ~r.raised THEN "l154"
                                 ELSE IF inv[i].posts = 0 THEN "l153" ELSE "raised"]
    /\ UNCHANGED <<env, ctor, adapter, objs, calls, seen>>

\* text = self._client.post(request): one HTTP POST of the request as it is now,
\* then the response decides between returning the reply and raising out of _call
Post(i, Resps) ==
    /\ inv[i].pc = "l153"
    /\ \E response \in Resps :
         LET r == post_result(response)
         IN  inv' = [inv EXCEPT
                       ![i].wire = HttpPost(adapter.client, objs[inv[i].request]),
                       ![i].posts = @ + 1,
                       ![i].response = response,
                       ![i].error = r.error,
                       ![i].text = r.value,
                       ![i].pc = IF r.raised THEN "raised" ELSE "l154"]
    /\ UNCHANGED <<env, ctor, adapter, objs, calls, seen>>

\* if stop is not None: text = enforce_stop_tokens(text, stop); return text
Finish(i) ==
    /\ inv[i].pc = "l154"
    /\ inv' = [inv EXCEPT ![i].text = call_result(inv[i].text, inv[i].stop),
                          ![i].pc = "done"]
    /\ UNCHANGED <<env, ctor, adapter, objs, calls, seen>>

Step(i, Resps) == L150(i) \/ L151(i) \/ L152(i) \/ Post(i, Resps) \/ Finish(i)

\* one adapter, built in any environment from any arguments, called from one thread
ExplicitChoices == SUBSET ExplicitNames
SeqResponses == Responses(ReplyChoices)

Next ==
    \/ Construct(ExplicitChoices, ModelKwargsChoices)
    \/ ReadParams
    \/ Call(1, StopChoices)
    \/ Step(1, SeqResponses)

Spec == Init /\ [][Next]_vars

\* the adapter built from no explicit credentials, with model_kwargs mk
ConstructedWith(mk) ==
    instance(validate_environment([FieldDefaults EXCEPT !.model_kwargs = mk]))

\* several threads calling one adapter, their statements interleaved
ConcStops == {NoStop, StopList(<<<<"b">>>>)}
ConcResponses == Responses({<<"a", "b">>})
ConcExplicit == {{}}

InitConc ==
    /\ env = FullEnv
    /\ ctor = NotConstructed
    /\ adapter = NoAdapter
    /\ objs = [r \in {KwargsRef} \cup Threads |-> EmptyDict]
    /\ inv = [i \in Threads |-> IdleLocals]
    /\ calls = 0
    /\ seen = NoSeen

NextConc ==
    \/ Construct(ConcExplicit, ModelKwargsChoices)
    \/ \E i \in Threads : Call(i, ConcStops) \/ Step(i, ConcResponses)

SpecConc == InitConc /\ [][NextConc]_vars

\* the end of one call, over every reply and every stop argument within the
\* bounds: the call has built its request and is about to post it
InitStop ==
    /\ env = FullEnv
    /\ ctor = [status |-> "ok", given |-> {}]
    /\ adapter = ConstructedWith(EmptyDict)
    /\ \E stop \in AllStops :
         /\ inv = [i \in Threads |->
                     IF i = 1
                     THEN [IdleLocals EXCEPT !.pc = "l153", !.prompt = "p",
                                             !.stop = stop, !.request = new_dict(1)]
                     ELSE IdleLocals]
         /\ objs = [r \in {KwargsRef} \cup Threads |->
                      IF r = new_dict(1)
                      THEN envelope(adapter, [x \in {KwargsRef} |-> EmptyDict],
                                    "p", EmptyDict)
                      ELSE EmptyDict]
    /\ calls = 1
    /\ seen = NoSeen

StopResponses == Responses(Texts(MaxLen))

NextStop ==
    \/ Post(1, StopResponses)
    \/ Finish(1)

SpecStop == InitStop /\ [][NextStop]_vars

-----------------------------------------------------------------------------
(* Properties *)

\* s occurs in text at index i (counted from 0)
OccursAt(s, text, i) ==
    /\ i \in 0..(Len(text) - Len(s))
    /\ \A j \in 1..Len(s) : text[i + j] = s[j]

\* the indices of text at which some string of the stop list occurs
StopIndices(text, stop) ==
    {i \in 0..Len(text) : \E k \in 1..Len(stop) : OccursAt(stop[k], text, i)}

Least(S) == CHOOSE m \in S : \A x \in S : m <= x

\* the reply that thread i's post returned
ReplyOf(i) == inv[i].response.json.reply

\* C1: with a non-empty stop list, a call that returns returns the prefix of the
\* reply that ends just before the smallest index at which any stop string
\* occurs in the reply, and the whole reply when none occurs
C1_StopTruncation ==
    \A i \in Threads :
        (inv[i].pc = "done" /\ inv[i].stop.given /\ inv[i].stop.list # <<>>) =>
            LET at == StopIndices(ReplyOf(i), inv[i].stop.list)
            IN  IF at = {}
                THEN inv[i].text = ReplyOf(i)
                ELSE /\ Len(inv[i].text) = Least(at)
                     /\ \A j \in 1..Least(at) : inv[i].text[j] = ReplyOf(i)[j]

\* a call returned a reply cut in its middle, at a stop string that is not the
\* first of its list, the first one occurring later in the reply
C1_Witness ==
    /\ inv[1].pc = "done"
    /\ inv[1].stop.given
    /\ Len(inv[1].stop.list) = 2
    /\ \E a, b \in 1..Len(ReplyOf(1)) :
         /\ a < b
         /\ OccursAt(inv[1].stop.list[2], ReplyOf(1), a)
         /\ OccursAt(inv[1].stop.list[1], ReplyOf(1), b)
         /\ ~ \E c \in 0..(b - 1) : OccursAt(inv[1].stop.list[1], ReplyOf(1), c)
    /\ inv[1].text # ReplyOf(1)
    /\ inv[1].text # <<>>

\* C10: a call made with no stop argument, or with an empty stop list, returns
\* the reply unmodified
C10_NoStopNoTruncation ==
    \A i \in Threads :
        (inv[i].pc = "done" /\ (~inv[i].stop.given \/ inv[i].stop.list = <<>>)) =>
            inv[i].text = ReplyOf(i)

\* a call with an empty stop list returned a non-empty reply
C10_Witness ==
    /\ inv[1].pc = "done"
    /\ inv[1].stop = StopList(<<>>)
    /\ ReplyOf(1) # <<>>
    /\ inv[1].text = ReplyOf(1)

\* thread i's call has made its HTTP exchange
Posted(i) == inv[i].pc \in {"l154", "done", "raised"}

\* the request envelope thread i's call passed to post
Sent(i) == inv[i].wire.json

C3_MessagesAlwaysPrompt ==
    \A i \in Threads :
        Posted(i) => Sent(i)["messages"] = Messages(inv[i].prompt)

\* C3, amended: the envelope's messages is the callOverrides' "messages" entry
\* when there is one, and [{sender_type: "USER", text: prompt}] otherwise,
\* whatever model_kwargs holds
C3_MessagesPromptUnlessOverridden ==
    \A i \in Threads :
        Posted(i) =>
            /\ "messages" \in DOMAIN Sent(i)
            /\ Sent(i)["messages"] =
                 IF "messages" \in DOMAIN inv[i].kwargs
                 THEN inv[i].kwargs["messages"]
                 ELSE Messages(inv[i].prompt)

\* a call was posted whose model_kwargs hold a "messages" entry and whose
\* callOverrides hold none
C3_Witness ==
    /\ Posted(1)
    /\ "messages" \in DOMAIN objs[KwargsRef]
    /\ "messages" \notin DOMAIN inv[1].kwargs
    /\ Sent(1)["messages"] = Messages(inv[1].prompt)

\* C4, as claimed: in the envelope every callOverrides key has its callOverrides
\* value and every other defaultParams() key has its defaultParams() value
C4_OverridesThenDefaults ==
    \A i \in Threads :
        Posted(i) =>
            LET dp == _default_params(adapter, objs)
            IN  \A k \in DOMAIN dp \cup DOMAIN inv[i].kwargs :
                    /\ k \in DOMAIN Sent(i)
                    /\ Sent(i)[k] =
                         IF k \in DOMAIN inv[i].kwargs THEN inv[i].kwargs[k] ELSE dp[k]

\* C4, amended: in the envelope every callOverrides key has its callOverrides
\* value and every other defaultParams() key except "messages" has its
\* defaultParams() value
C4_OverridesThenDefaultsButMessages ==
    \A i \in Threads :
        Posted(i) =>
            LET dp == _default_params(adapter, objs)
            IN  \A k \in DOMAIN dp \cup DOMAIN inv[i].kwargs :
                    /\ k \in DOMAIN Sent(i)
                    /\ k \in DOMAIN inv[i].kwargs => Sent(i)[k] = inv[i].kwargs[k]
                    /\ (k \notin DOMAIN inv[i].kwargs /\ k # "messages") =>
                         Sent(i)[k] = dp[k]

\* a call was posted whose callOverrides set temperature and nothing else, over
\* model_kwargs that add top_k
C4_Witness ==
    /\ Posted(1)
    /\ DOMAIN inv[1].kwargs = {"temperature"}
    /\ "top_k" \in DOMAIN objs[KwargsRef]
    /\ Sent(1)["temperature"] # _default_params(adapter, objs)["temperature"]
    /\ Sent(1)["top_k"] = objs[KwargsRef]["top_k"]

\* name is supplied by the argument arg or by the environment variable var
Supplied(arg, var) == arg \in ctor.given \/ env[var] # Absent

\* C5: construction fails whenever the api key or the group id is supplied
\* neither as an argument nor by its environment variable; after a failure
\* there is no instance, no client and no call; with both supplied, a host
\* supplied by neither does not fail construction and is the default host
C5_MissingCredentialFails ==
    ctor.status # "new" =>
        LET credentials == /\ Supplied("minimax_api_key", "MINIMAX_API_KEY")
                           /\ Supplied("minimax_group_id", "MINIMAX_GROUP_ID")
        IN  /\ ~credentials => ctor.status = "ConfigurationError"
            /\ ctor.status = "ConfigurationError" =>
                 /\ adapter = NoAdapter
                 /\ calls = 0
                 /\ \A i \in Threads : inv[i] = IdleLocals
            /\ (credentials /\ ~Supplied("minimax_api_host", "MINIMAX_API_HOST")) =>
                 /\ ctor.status = "ok"
                 /\ adapter.minimax_api_host = Val(DefaultHost)
                 /\ adapter.client.host = DefaultHost
                 /\ adapter.client.api_url.host = DefaultHost

\* construction failed with the api key given and the group id supplied nowhere
C5_Witness ==
    /\ ctor.status = "ConfigurationError"
    /\ "minimax_api_key" \in ctor.given
    /\ ~Supplied("minimax_group_id", "MINIMAX_GROUP_ID")
    /\ ~Supplied("minimax_api_host", "MINIMAX_API_HOST")

\* C6: a call that has ended, by return or by error, has made exactly one HTTP
\* POST; a call never makes a second one, and none before it reaches post
C6_OnePostPerCall ==
    \A i \in Threads :
        /\ inv[i].posts <= 1
        /\ Posted(i) => inv[i].posts = 1
        /\ inv[i].pc \in {"l150", "l151", "l152", "l153"} => inv[i].posts = 0

\* a call ended with the error of a failed HTTP exchange after its one POST
C6_Witness ==
    /\ inv[1].pc = "raised"
    /\ inv[1].error.tag = "HTTP"
    /\ inv[1].posts = 1

\* C9: the keys of defaultParams() are model, tokens_to_generate, temperature,
\* top_p and the keys of model_kwargs; identifyingParams() has the key model
\* and the entries of defaultParams(); a value read earlier equals the value now
C9_ParamsKeys ==
    ctor.status = "ok" =>
        LET dp == _default_params(adapter, objs)
            ip == _identifying_params(adapter, objs)
        IN  /\ DOMAIN dp = {"model", "tokens_to_generate", "temperature", "top_p"}
                              \cup DOMAIN objs[adapter.model_kwargs]
            /\ DOMAIN ip = {"model"} \cup DOMAIN dp
            /\ \A k \in DOMAIN dp : ip[k] = dp[k]
            /\ seen.read =>
                 (seen.default_params = dp /\ seen.identifying_params = ip)

\* the properties were read on an adapter with model_kwargs, and a call has
\* since returned
C9_Witness ==
    /\ seen.read
    /\ "top_k" \in DOMAIN seen.default_params
    /\ inv[1].pc = "done"

\* the request that thread i is about to post holds, under each of its keys,
\* the call's own callOverrides entry, else the call's own prompt under
\* "messages", else the entry of defaultParams(): nothing else
OwnRequest(i) ==
    inv[i].pc = "l153" =>
        LET dp == _default_params(adapter, objs)
            request == objs[inv[i].request]
        IN  \A k \in DOMAIN request :
                IF k \in DOMAIN inv[i].kwargs THEN request[k] = inv[i].kwargs[k]
                ELSE IF k = "messages" THEN request[k] = Messages(inv[i].prompt)
                ELSE k \in DOMAIN dp /\ request[k] = dp[k]

\* C7: no step taken once the adapter is constructed changes its fields, its
\* model_kwargs, its client or what defaultParams() returns, and the request a
\* call builds holds nothing of an earlier call
C7_RetainedStateUnchanged ==
    [][ctor.status = "ok" =>
         /\ adapter' = adapter
         /\ objs'[adapter'.model_kwargs] = objs[adapter.model_kwargs]
         /\ _default_params(adapter', objs') = _default_params(adapter, objs)
         /\ \A i \in Threads : OwnRequest(i)']_vars

\* on an adapter with model_kwargs, a second call, made with no callOverrides,
\* has built its request after an earlier call ended
C7_Witness ==
    /\ calls = 2
    /\ inv[1].pc = "l153"
    /\ inv[1].kwargs = EmptyDict
    /\ "top_k" \in DOMAIN objs[KwargsRef]

\* C8: under every interleaving, what a call sent, the error it raised and the
\* text it returned are those of the same call run alone on the same
\* configuration, prompt, stop list, callOverrides and response
C8_AsIfAlone ==
    \A i \in Threads :
        Posted(i) =>
            LET alone == _call(adapter, objs, inv[i].prompt, inv[i].stop,
                                    inv[i].kwargs, inv[i].response)
            IN  /\ inv[i].wire = alone.wire
                /\ inv[i].error = alone.error
                /\ inv[i].pc \in {"done", "raised"} => inv[i].text = alone.text

\* two calls with different prompts and callOverrides are in flight at once:
\* one has returned a truncated reply while the other, which has posted its
\* request, has yet to return
C8_Witness ==
    /\ inv[1].pc = "done"
    /\ inv[2].pc = "l154"
    /\ inv[1].prompt # inv[2].prompt
    /\ inv[1].kwargs # inv[2].kwargs
    /\ inv[1].stop.given
    /\ inv[1].text # ReplyOf(1)

====
